---- MODULE Spec2Model ----
(***************************************************************************)
(* Resource lifecycle and accessor layer of pyth_grib: GribMessage         *)
(* (gribmessage.py), GribIndex (gribindex.py) and the GribFile container   *)
(* they cooperate with.  The gribapi codec is the environment: a table of  *)
(* record handles, one index handle and one file cursor.                   *)
(***************************************************************************)
EXTENDS Integers, Sequences, FiniteSets, TLC

\* ------------------------------------------------------------------ bounds
MaxMsgs == 2          \* GribMessage objects constructed in one behaviour
NumRecords == 2       \* records held by the container file
MaxEofReads == 1      \* next() calls made after the last record
MaxRecloses == 1      \* close calls made on objects that are closed already
MaxAccMsgs == 1       \* messages the accessors are exercised on
MaxWrites == 2        \* set / set_missing calls in one behaviour
MaxArrayLen == 2      \* longest sequence value handed to set

\* ------------------------------------------------------------ value domain
None == "None"
NoVal == [kind |-> "none", elems |-> << >>]
Scalar(x) == [kind |-> "scalar", elems |-> <<x>>]
Text(x) == [kind |-> "text", elems |-> <<x>>]
Array(xs) == [kind |-> "array", elems |-> xs]

RECURSIVE Fill(_, _)
Fill(x, n) == IF n = 0 THEN << >> ELSE <<x>> \o Fill(x, n - 1)

\* values a caller hands to set: a number, a string, sequences of 1..MaxArrayLen
SetVals == {Scalar(7), Text(1)} \cup {Array(Fill(7, n)) : n \in 1..MaxArrayLen}

Keys == {"k", "values"}
KeyOrder == <<"k", "values">>        \* natural key order of a file record
SampleKeyOrder == <<"values">>       \* natural key order of the sample
SampleNames == {"GRIB2", "bogus"}
KnownSamples == {"GRIB2"}

IdxKeys == {"dataDate", "stepRange"}
SelVals == {0, 1}
NoSel == {}                          \* a key no value was selected for
IdxDomain == [dataDate |-> {1}, stepRange |-> {0, 1}]

Range(f) == {f[i] : i \in DOMAIN f}

\* -------------------------------------------------------------- the codec
\* One datum of a record: its elements, its native type and its missing flag.
Datum(native, elems, miss) == [native |-> native, elems |-> elems, missing |-> miss]

RecordData == [key \in Keys |->
                 IF key = "values" THEN Datum("int", <<1, 2>>, FALSE)
                 ELSE Datum("int", <<0>>, TRUE)]

NewHandle(keys, data) == [released |-> 0, keys |-> keys, data |-> data]

HasKey(h, key) == key \in Range(h.keys)

grib_is_missing(h, key) == h.data[key].missing

grib_set_missing(h, key) == [h EXCEPT !.data[key].missing = TRUE]

grib_set(h, key, value) ==
  [h EXCEPT !.data[key] =
     Datum(IF value.kind = "text" THEN "str" ELSE "int", value.elems, FALSE)]

grib_set_array(h, key, value) ==
  [h EXCEPT !.data[key] = Datum("int", value.elems, FALSE)]

\* scalar read: the destination holds one element
grib_get_too_small(h, key) == Len(h.data[key].elems) > 1

grib_get(h, key) ==
  [kind |-> IF h.data[key].native = "str" THEN "text" ELSE "scalar",
   elems |-> h.data[key].elems]

grib_get_array(h, key) == Array(h.data[key].elems)

grib_get_values(h) == Array(h.data["values"].elems)

RECURSIVE SumLen(_, _)
SumLen(h, ks) ==
  IF ks = << >> THEN 0 ELSE Len(h.data[Head(ks)].elems) + SumLen(h, Tail(ks))

grib_get_message_size(h) == SumLen(h, h.keys)

grib_release(h) == [h EXCEPT !.released = @ + 1]

Live(h) == h.released = 0

\* ------------------------------------------------------------------ state
VARIABLES
  msgs,      \* the GribMessage objects constructed so far, by identity
  handles,   \* the codec's record handles, by gid
  grib,      \* the GribFile container
  idx,       \* the GribIndex and the codec's state of its index handle
  writes,    \* set / set_missing calls made so far
  last       \* the last call made and how it ended

vars == <<msgs, handles, grib, idx, writes, last>>

St == [msgs |-> msgs, handles |-> handles, grib |-> grib, idx |-> idx]

Call(op) ==
  [op |-> op, msg |-> 0, key |-> "", val |-> NoVal, outcome |-> "ok",
   ret |-> NoVal, flag |-> FALSE, names |-> << >>, stale |-> FALSE,
   made |-> 0, arg |-> 0, pre |-> "", path |-> << >>]

Init ==
  /\ msgs = << >>
  /\ handles = << >>
  /\ grib = [closed |-> FALSE, message |-> 0, open_messages |-> << >>, pos |-> 0]
  /\ idx = [released |-> 0, keys |-> IdxKeys, open_messages |-> << >>,
            sel |-> [k \in IdxKeys |-> NoSel]]
  /\ writes = 0
  /\ last = Call("init")

\* ------------------------------------------------- results of an operation
Res(s, outcome) == [s |-> s, outcome |-> outcome, made |-> 0]
Made(s, m) == [s |-> s, outcome |-> "ok", made |-> m]

Registry(s, owner) ==
  IF owner = "GribFile" THEN s.grib.open_messages ELSE s.idx.open_messages

SetRegistry(s, owner, reg) ==
  IF owner = "GribFile" THEN [s EXCEPT !.grib.open_messages = reg]
  ELSE [s EXCEPT !.idx.open_messages = reg]

\* list.remove(x): drops the first entry equal to x
RECURSIVE list_remove(_, _)
list_remove(reg, m) ==
  IF reg = << >> THEN << >>
  ELSE IF Head(reg) = m THEN Tail(reg)
  ELSE <<Head(reg)>> \o list_remove(Tail(reg), m)

IsOpen(s, m) == Live(s.handles[s.msgs[m].gid])

\* ------------------------------------------------------------ GribMessage
\* __exit__ with a registry update that drops the first entry, whoever it is
GribMessage_exit_pop(s, m, raises) ==
  LET msg == s.msgs[m]
      s1 == [s EXCEPT !.handles[msg.gid] = grib_release(@)]
  IN  IF ~Live(s.handles[msg.gid]) /\ raises THEN Res(s1, "GribInternalError")
      ELSE IF msg.grib_file # None
        THEN IF m \in Range(Registry(s1, msg.grib_file))
               THEN Res(SetRegistry(s1, msg.grib_file,
                                    Tail(Registry(s1, msg.grib_file))), "ok")
               ELSE Res(s1, "ValueError")
        ELSE Res(s1, "ok")

\* __exit__ that releases the handle and stays in the owner's registry
GribMessage_exit_keep(s, m, raises) ==
  LET msg == s.msgs[m]
      s1 == [s EXCEPT !.handles[msg.gid] = grib_release(@)]
  IN  IF ~Live(s.handles[msg.gid]) /\ raises THEN Res(s1, "GribInternalError")
      ELSE Res(s1, "ok")

\* __exit__: release the handle, then leave the owner's registry.  `raises`
\* is the codec's answer to a handle it already released: an error, or none.
GribMessage_exit(s, m, raises) ==
  LET msg == s.msgs[m]
      s1 == [s EXCEPT !.handles[msg.gid] = grib_release(@)]
  IN  IF ~Live(s.handles[msg.gid]) /\ raises THEN Res(s1, "GribInternalError")
      ELSE IF msg.grib_file # None
        THEN IF m \in Range(Registry(s1, msg.grib_file))
               THEN Res(SetRegistry(s1, msg.grib_file,
                                    list_remove(Registry(s1, msg.grib_file), m)), "ok")
               ELSE Res(s1, "ValueError")
        ELSE Res(s1, "ok")

GribMessage_close(s, m, raises) == GribMessage_exit(s, m, raises)

\* the object the constructor leaves behind when it returns
NewMessage(s, h, owner, origin) ==
  LET gid == Len(s.handles) + 1
      m == Len(s.msgs) + 1
  IN  Made([s EXCEPT !.handles = Append(@, h),
                     !.msgs = Append(@, [gid |-> gid, grib_file |-> owner,
                                         size |-> grib_get_message_size(h),
                                         origin |-> origin])], m)

\* grib_new_from_index: "error" (a key has no selected value, or the index
\* handle is released), "none" (no record, or no further record, matches the
\* selection: `more` is what the index file holds), "handle"
grib_new_from_index(ix, more) ==
  IF ix.released > 0 THEN "error"
  ELSE IF \E k \in IdxKeys : ix.sel[k] = NoSel THEN "error"
  ELSE IF \E k \in IdxKeys : ~(ix.sel[k] \subseteq IdxDomain[k]) THEN "none"
  ELSE IF ~more THEN "none"
  ELSE "handle"

\* __init__(index=...) that starts the index's selection afresh
GribMessage_init_index_reset(s, more) ==
  LET got == grib_new_from_index(s.idx, more)
      s1 == [s EXCEPT !.idx.sel = [k \in IdxKeys |-> NoSel]]
  IN  IF got # "handle" THEN Res(s1, "GribInternalError")
      ELSE NewMessage(s1, NewHandle(KeyOrder, RecordData), None, "index")

\* __init__(grib_file=...) that forgets the container it read from
GribMessage_init_file_unowned(s) ==
  IF s.grib.closed THEN Res(s, "ValueError")
  ELSE IF s.grib.pos < NumRecords
    THEN NewMessage([s EXCEPT !.grib.pos = @ + 1, !.grib.message = @ + 1],
                    NewHandle(KeyOrder, RecordData), None, "file")
    ELSE Res([s EXCEPT !.grib.message = @ + 1], "GribInternalError")

\* __init__(grib_file=...)
GribMessage_init_file(s) ==
  IF s.grib.closed THEN Res(s, "ValueError")
  ELSE IF s.grib.pos < NumRecords
    THEN NewMessage([s EXCEPT !.grib.pos = @ + 1, !.grib.message = @ + 1],
                    NewHandle(KeyOrder, RecordData), "GribFile", "file")
    \* end of file: gid is None, the counter is bumped, the size read raises
    ELSE Res([s EXCEPT !.grib.message = @ + 1], "GribInternalError")

\* clone() that hands the source's handle and owner on to the new object
GribMessage_clone_shallow(s, m) ==
  LET h == s.handles[s.msgs[m].gid]
  IN  IF ~Live(h) THEN Res(s, "GribInternalError")
      ELSE Made([s EXCEPT !.msgs = Append(@, [s.msgs[m] EXCEPT !.origin = "clone"])],
                Len(s.msgs) + 1)

\* __init__(clone=gid), reached from clone(): grib_clone(self.gid) first
GribMessage_clone(s, m) ==
  LET h == s.handles[s.msgs[m].gid]
  IN  IF ~Live(h) THEN Res(s, "GribInternalError")
      ELSE NewMessage(s, NewHandle(h.keys, h.data), None, "clone")

\* __init__(sample=name)
GribMessage_init_sample(s, name) ==
  IF name \notin KnownSamples THEN Res(s, "GribInternalError")
  ELSE NewMessage(s, NewHandle(SampleKeyOrder, RecordData), None, "sample")

\* __init__(index=...)
GribMessage_init_index(s, more) ==
  LET got == grib_new_from_index(s.idx, more)
  IN  IF got # "handle" THEN Res(s, "GribInternalError")
      ELSE NewMessage(s, NewHandle(KeyOrder, RecordData), None, "index")

\* -------------------------------------------------------------- GribIndex
\* a drain loop that closes nothing
Drain_skip(s, owner, fuel, raises) == Res(s, "ok")

\* the drain loop: while self.open_messages: self.open_messages[0].close()
RECURSIVE Drain(_, _, _, _)
Drain(s, owner, fuel, raises) ==
  IF Registry(s, owner) = << >> THEN Res(s, "ok")
  ELSE IF fuel = 0 THEN Res(s, "diverges")
  ELSE LET r == GribMessage_close(s, Head(Registry(s, owner)), raises)
       IN  IF r.outcome # "ok" THEN r
           ELSE Drain(r.s, owner, fuel - 1, raises)

GribIndex_exit(s, raises) ==
  LET r == Drain(s, "GribIndex", Len(s.idx.open_messages), raises)
  IN  IF r.outcome # "ok" THEN r
      ELSE LET s1 == [r.s EXCEPT !.idx.released = @ + 1]
           IN  IF s.idx.released > 0 /\ raises THEN Res(s1, "GribInternalError")
               ELSE Res(s1, "ok")

GribIndex_close(s, raises) == GribIndex_exit(s, raises)

\* select(key, value): grib_index_select, then GribMessage(index=self)
GribIndex_select(s, key, value, more) ==
  IF s.idx.released > 0 THEN Res(s, "GribInternalError")
  ELSE GribMessage_init_index([s EXCEPT !.idx.sel[key] = {value}], more)

\* select(mapping): one positional argument for the two of the signature, so
\* the call raises before the body runs
GribIndex_select_mapping(s, mapping) == Res(s, "TypeError")

\* --------------------------------------------------------------- GribFile
GribFile_next(s) ==
  IF s.grib.closed THEN Res(s, "UseAfterCloseError")
  ELSE LET r == GribMessage_init_file(s)
       IN  IF r.outcome # "ok" THEN Res(r.s, "StopIteration")
           ELSE Made([r.s EXCEPT !.grib.open_messages = Append(@, r.made)], r.made)

GribFile_exit(s) ==
  IF s.grib.closed THEN Res(s, "ok")
  ELSE LET r == Drain(s, "GribFile", Len(s.grib.open_messages), TRUE)
       IN  IF r.outcome # "ok" THEN r
           ELSE Res([r.s EXCEPT !.grib.closed = TRUE], "ok")

GribFile_close(s) == GribFile_exit(s)

\* len(): the records the file holds, counted when it is opened
GribFile_len(s) == NumRecords

\* --------------------------------------------------- GribMessage accessors
\* Every accessor hands self.gid to the codec as it is; the codec refuses a
\* released handle and a key the record does not hold.
\* `path` lists the codec calls the accessor made, in call order.
Acc(h, outcome) ==
  [h |-> h, outcome |-> outcome, ret |-> NoVal, flag |-> FALSE, names |-> << >>,
   path |-> << >>]

Via(r, calls) == [r EXCEPT !.path = calls]

CodecRefuses(h, key) == ~Live(h) \/ ~HasKey(h, key)

GribMessage_missing(h, key) ==
  Via(IF CodecRefuses(h, key) THEN Acc(h, "GribInternalError")
      ELSE [Acc(h, "ok") EXCEPT !.flag = grib_is_missing(h, key)],
      <<"grib_is_missing">>)

GribMessage_set_missing(h, key) ==
  Via(IF CodecRefuses(h, key) THEN Acc(h, "GribInternalError")
      ELSE Acc(grib_set_missing(h, key), "ok"),
      <<"grib_set_missing">>)

\* the error a scalar read ends with: `fault` is the codec failing the read
\* for a reason of its own, else the one-element destination is too small for
\* a datum of several elements
TooSmall == "Passed array is too small"
grib_get_error(h, key, fault) ==
  IF fault THEN "other"
  ELSE IF grib_get_too_small(h, key) THEN TooSmall
  ELSE "none"

\* lines 146-155: the scalar read and what follows its failure
ReadTyped(h, key, fault) ==
  LET e == grib_get_error(h, key, fault)
  IN  IF e = "none"
        THEN Via([Acc(h, "ok") EXCEPT !.ret = grib_get(h, key)],
                 <<"grib_is_missing", "grib_get">>)
      ELSE IF e = TooSmall
        THEN Via([Acc(h, "ok") EXCEPT !.ret = grib_get_array(h, key)],
                 <<"grib_is_missing", "grib_get", "grib_get_array">>)
      ELSE Via(Acc(h, "GribInternalError"), <<"grib_is_missing", "grib_get">>)

\* lines 144-145: the payload key
ReadValues(h) ==
  Via([Acc(h, "ok") EXCEPT !.ret = grib_get_values(h)],
      <<"grib_is_missing", "grib_get_values">>)

\* get without the missing check of line 142
GribMessage_get_unchecked(h, key, fault) ==
  IF CodecRefuses(h, key) THEN Via(Acc(h, "GribInternalError"), <<"grib_is_missing">>)
  ELSE IF key = "values" THEN ReadValues(h)
  ELSE ReadTyped(h, key, fault)

\* get that answers every failure of the scalar read with an array read
GribMessage_get_retry_always(h, key, fault) ==
  IF CodecRefuses(h, key) THEN Via(Acc(h, "GribInternalError"), <<"grib_is_missing">>)
  ELSE IF GribMessage_missing(h, key).flag
    THEN Via(Acc(h, "KeyError"), <<"grib_is_missing">>)
  ELSE IF key = "values" THEN ReadValues(h)
  ELSE IF grib_get_error(h, key, fault) = "none" THEN ReadTyped(h, key, fault)
  ELSE Via([Acc(h, "ok") EXCEPT !.ret = grib_get_array(h, key)],
           <<"grib_is_missing", "grib_get", "grib_get_array">>)

GribMessage_get(h, key, fault) ==
  IF CodecRefuses(h, key) THEN Via(Acc(h, "GribInternalError"), <<"grib_is_missing">>)
  ELSE IF GribMessage_missing(h, key).flag
    THEN Via(Acc(h, "KeyError"), <<"grib_is_missing">>)
  ELSE IF key = "values" THEN ReadValues(h)
  ELSE ReadTyped(h, key, fault)

\* isinstance(value, collections.Iterable) and not isinstance(value, basestring)
IsIterableNotString(value) == value.kind = "array"

\* __setitem__ that sends the payload key to the array path whatever the value
GribMessage_setitem_by_key(h, key, value) ==
  IF CodecRefuses(h, key)
    THEN Via(Acc(h, "GribInternalError"),
             IF IsIterableNotString(value) \/ key = "values"
             THEN <<"grib_set_array">> ELSE <<"grib_set">>)
  ELSE IF IsIterableNotString(value) \/ key = "values"
    THEN Via(Acc(grib_set_array(h, key, value), "ok"), <<"grib_set_array">>)
  ELSE Via(Acc(grib_set(h, key, value), "ok"), <<"grib_set">>)

GribMessage_setitem(h, key, value) ==
  IF CodecRefuses(h, key)
    THEN Via(Acc(h, "GribInternalError"),
             IF IsIterableNotString(value) THEN <<"grib_set_array">> ELSE <<"grib_set">>)
  ELSE IF IsIterableNotString(value)
    THEN Via(Acc(grib_set_array(h, key, value), "ok"), <<"grib_set_array">>)
  ELSE Via(Acc(grib_set(h, key, value), "ok"), <<"grib_set">>)

GribMessage_get_keys(h) ==
  IF ~Live(h) THEN Acc(h, "GribInternalError")
  ELSE [Acc(h, "ok") EXCEPT !.names = h.keys]

GribMessage_contains(h, key) ==
  LET r == GribMessage_get_keys(h)
  IN  IF r.outcome # "ok" THEN r ELSE [r EXCEPT !.flag = key \in Range(r.names)]

GribMessage_len(h) ==
  LET r == GribMessage_get_keys(h)
  IN  IF r.outcome # "ok" THEN r ELSE [r EXCEPT !.ret = Scalar(Len(r.names))]

\* a size attribute that follows the handle's content
GribMessage_size_live(s, m) == grib_get_message_size(s.handles[s.msgs[m].gid])

\* the size attribute: what line 124 stored when the object was constructed
GribMessage_size(s, m) == s.msgs[m].size

\* dump: the binary content, here the data of the keys in key order
GribMessage_dump(h) ==
  IF ~Live(h) THEN Acc(h, "GribInternalError")
  ELSE [Acc(h, "ok") EXCEPT !.ret = Scalar(grib_get_message_size(h))]

\* __init__(clone=msg) with the source message itself, as test_clone calls it:
\* `elif clone:` asks the source for its length, self.gid becomes the message
\* object, and the size read of line 124 refuses a gid that is no integer
GribMessage_init_clone(s, m) ==
  LET n == GribMessage_len(s.handles[s.msgs[m].gid])
  IN  IF n.outcome # "ok" THEN Res(s, n.outcome)
      ELSE IF n.ret = Scalar(0) THEN Res(s, "RuntimeError")
      ELSE Res(s, "TypeError")

\* write(outfile): the sink written to is reported in ret.kind
GribMessage_write(s, m, outfile) ==
  LET h == s.handles[s.msgs[m].gid]
  IN  IF outfile = None /\ s.msgs[m].grib_file = None THEN Acc(h, "AttributeError")
      ELSE IF ~Live(h) THEN Acc(h, "GribInternalError")
      ELSE IF outfile = None /\ s.grib.closed THEN Acc(h, "ValueError")
      ELSE [Acc(h, "ok") EXCEPT !.ret =
              [kind |-> IF outfile = None THEN "file_handle" ELSE outfile,
               elems |-> <<grib_get_message_size(h)>>]]

\* ---------------------------------------------------------------- actions
Commit(r, call) ==
  /\ msgs' = r.s.msgs
  /\ handles' = r.s.handles
  /\ grib' = r.s.grib
  /\ idx' = r.s.idx
  /\ last' = [call EXCEPT !.outcome = r.outcome, !.made = r.made]

MsgIds == 1..Len(msgs)
Room == Len(msgs) < MaxMsgs
Handle(m) == handles[msgs[m].gid]

FileNext ==
  /\ \/ grib.pos < NumRecords /\ Room
     \/ grib.pos >= NumRecords /\ grib.message < NumRecords + MaxEofReads
  /\ Commit(GribFile_next(St), [Call("next") EXCEPT !.stale = grib.closed])
  /\ UNCHANGED writes

FileClose ==
  /\ Commit(GribFile_close(St),
            [Call("file_close") EXCEPT !.pre = IF grib.closed THEN "closed" ELSE "open",
                                       !.arg = Len(grib.open_messages)])
  /\ UNCHANGED writes

\* close calls made so far on a message or an index that was closed already
RECURSIVE Recloses(_)
Recloses(hs) ==
  IF hs = << >> THEN IF idx.released > 1 THEN idx.released - 1 ELSE 0
  ELSE (IF Head(hs).released > 1 THEN Head(hs).released - 1 ELSE 0)
       + Recloses(Tail(hs))

MsgClose(m) ==
  /\ IsOpen(St, m) \/ Recloses(handles) < MaxRecloses
  /\ \E raises \in BOOLEAN :
       Commit(GribMessage_close(St, m, raises),
              [Call("close") EXCEPT !.msg = m, !.stale = ~IsOpen(St, m),
                                    !.pre = IF IsOpen(St, m) THEN "open" ELSE "closed"])
  /\ UNCHANGED writes

MsgClone(m) ==
  /\ Room
  /\ Commit(GribMessage_clone(St, m),
            [Call("clone") EXCEPT !.msg = m, !.stale = ~IsOpen(St, m)])
  /\ UNCHANGED writes

MsgCloneCtor(m) ==
  /\ Room
  /\ Commit(GribMessage_init_clone(St, m),
            [Call("clone_ctor") EXCEPT !.msg = m, !.stale = ~IsOpen(St, m)])
  /\ UNCHANGED writes

MsgSample(name) ==
  /\ Room
  /\ Commit(GribMessage_init_sample(St, name), Call("sample"))
  /\ UNCHANGED writes

MsgFromIndex ==
  /\ Room
  /\ \E more \in BOOLEAN :
       Commit(GribMessage_init_index(St, more),
              [Call("from_index") EXCEPT !.stale = idx.released > 0,
                 !.pre = IF \E k \in IdxKeys : idx.sel[k] = NoSel
                         THEN "unselected" ELSE "selected"])
  /\ UNCHANGED writes

IndexSelect(key, value) ==
  /\ Room
  /\ \E more \in BOOLEAN :
       Commit(GribIndex_select(St, key, value, more),
              [Call("select") EXCEPT !.key = key, !.arg = value,
                                     !.stale = idx.released > 0])
  /\ UNCHANGED writes

Mappings == [IdxKeys -> {NoSel} \cup {{v} : v \in SelVals}]
Complete(sel) == \A k \in IdxKeys : sel[k] # NoSel
InDomain(sel) == \A k \in IdxKeys : sel[k] \subseteq IdxDomain[k]

IndexSelectMapping(mapping) ==
  /\ Commit(GribIndex_select_mapping(St, mapping),
            [Call("select_mapping") EXCEPT !.stale = idx.released > 0,
               !.pre = IF ~Complete(mapping) THEN "incomplete"
                       ELSE IF ~InDomain(mapping) THEN "out_of_domain"
                       ELSE "complete"])
  /\ UNCHANGED writes

IndexClose ==
  /\ idx.released = 0 \/ Recloses(handles) < MaxRecloses
  /\ \E raises \in BOOLEAN :
       Commit(GribIndex_close(St, raises),
              [Call("index_close") EXCEPT !.stale = idx.released > 0,
                 !.pre = IF idx.released > 0 THEN "closed" ELSE "open"])
  /\ UNCHANGED writes

\* an accessor call on message m: only m's handle and `last` may change
Access(m, r, call) ==
  /\ handles' = [handles EXCEPT ![msgs[m].gid] = r.h]
  /\ last' = [call EXCEPT !.msg = m, !.outcome = r.outcome, !.ret = r.ret,
                          !.flag = r.flag, !.names = r.names, !.path = r.path,
                          !.stale = ~IsOpen(St, m)]
  /\ UNCHANGED <<msgs, grib, idx>>

MsgGet(m, key) ==
  /\ \E fault \in BOOLEAN :
       Access(m, GribMessage_get(Handle(m), key, fault),
              [Call("get") EXCEPT !.key = key,
                 !.pre = grib_get_error(Handle(m), key, fault)])
  /\ UNCHANGED writes

MsgMissing(m, key) ==
  /\ Access(m, GribMessage_missing(Handle(m), key), [Call("missing") EXCEPT !.key = key])
  /\ UNCHANGED writes

MsgSetMissing(m, key) ==
  /\ writes < MaxWrites
  /\ Access(m, GribMessage_set_missing(Handle(m), key),
            [Call("set_missing") EXCEPT !.key = key])
  /\ writes' = writes + 1

MsgSet(m, key, value) ==
  /\ writes < MaxWrites
  /\ Access(m, GribMessage_setitem(Handle(m), key, value),
            [Call("set") EXCEPT !.key = key, !.val = value,
               !.pre = IF last.op = "set_missing" /\ last.msg = m /\ last.key = key
                          /\ last.outcome = "ok"
                       THEN "after_set_missing"
                       ELSE IF Handle(m).data[key].missing THEN "missing"
                       ELSE "present"])
  /\ writes' = writes + 1

MsgKeys(m) ==
  /\ Access(m, GribMessage_get_keys(Handle(m)), Call("keys"))
  /\ UNCHANGED writes

MsgContains(m, key) ==
  /\ Access(m, GribMessage_contains(Handle(m), key), [Call("contains") EXCEPT !.key = key])
  /\ UNCHANGED writes

MsgLen(m) ==
  /\ Access(m, GribMessage_len(Handle(m)), Call("key_count"))
  /\ UNCHANGED writes

MsgDump(m) ==
  /\ Access(m, GribMessage_dump(Handle(m)), Call("dump"))
  /\ UNCHANGED writes

Outfiles == {None, "sink"}

MsgWrite(m, outfile) ==
  /\ Access(m, GribMessage_write(St, m, outfile), [Call("write") EXCEPT !.pre = outfile])
  /\ UNCHANGED writes

\* the lifecycle of the container, the index and their messages
Next ==
  \/ FileNext
  \/ FileClose
  \/ \E m \in MsgIds : MsgClose(m)
  \/ \E m \in MsgIds : MsgClone(m)
  \/ \E m \in MsgIds : MsgCloneCtor(m)
  \/ MsgFromIndex
  \/ \E key \in IdxKeys, value \in SelVals : IndexSelect(key, value)
  \/ \E mapping \in Mappings : IndexSelectMapping(mapping)
  \/ IndexClose

Spec == Init /\ [][Next]_vars

\* the accessors of messages read from the container or made from a sample
NextAccess ==
  \/ Len(msgs) < MaxAccMsgs /\ FileNext
  \/ \E name \in SampleNames : Len(msgs) < MaxAccMsgs /\ MsgSample(name)
  \/ \E m \in MsgIds : IsOpen(St, m) /\ MsgClose(m)
  \/ \E m \in MsgIds, key \in Keys : MsgGet(m, key)
  \/ \E m \in MsgIds, key \in Keys : MsgMissing(m, key)
  \/ \E m \in MsgIds, key \in Keys : MsgSetMissing(m, key)
  \/ \E m \in MsgIds, key \in Keys, value \in SetVals : MsgSet(m, key, value)
  \/ \E m \in MsgIds : MsgKeys(m)
  \/ \E m \in MsgIds, key \in Keys : MsgContains(m, key)
  \/ \E m \in MsgIds : MsgLen(m)
  \/ \E m \in MsgIds : MsgDump(m)
  \/ \E m \in MsgIds, outfile \in Outfiles : MsgWrite(m, outfile)

SpecAccess == Init /\ [][NextAccess]_vars

\* ------------------------------------------------- the drain loop, stepwise
\* The loop of an owner's __exit__, one close per step.  While an owner
\* drains, `last` is the call in progress: op "draining", pre the owner, arg
\* the length of the registry when the loop was entered.
Draining == last.op = "draining"
CloseOpOf(owner) == IF owner = "GribFile" THEN "file_close" ELSE "index_close"

\* close() of an open owner enters __exit__
DrainBegin(owner) ==
  /\ ~Draining
  /\ IF owner = "GribFile" THEN ~grib.closed ELSE idx.released = 0
  /\ last' = [Call("draining") EXCEPT !.pre = owner,
                                      !.arg = Len(Registry(St, owner))]
  /\ UNCHANGED <<msgs, handles, grib, idx, writes>>

\* while self.open_messages: self.open_messages[0].close()
\* an error of the close leaves the loop and the owner's close with it
DrainStep ==
  /\ Draining
  /\ Registry(St, last.pre) # << >>
  /\ IsOpen(St, Head(Registry(St, last.pre))) \/ Recloses(handles) < MaxRecloses
  /\ \E raises \in BOOLEAN :
       LET m == Head(Registry(St, last.pre))
           r == GribMessage_close(St, m, raises)
       IN  /\ msgs' = r.s.msgs
           /\ handles' = r.s.handles
           /\ grib' = r.s.grib
           /\ idx' = r.s.idx
           /\ last' = IF r.outcome = "ok" THEN [last EXCEPT !.msg = m]
                      ELSE [Call(CloseOpOf(last.pre)) EXCEPT
                              !.outcome = r.outcome, !.pre = "open", !.arg = last.arg]
  /\ UNCHANGED writes

\* the registry is empty: release the owner's own handle and return
DrainEnd ==
  /\ Draining
  /\ Registry(St, last.pre) = << >>
  /\ IF last.pre = "GribFile"
       THEN grib' = [grib EXCEPT !.closed = TRUE] /\ idx' = idx
       ELSE idx' = [idx EXCEPT !.released = @ + 1] /\ grib' = grib
  /\ last' = [Call(CloseOpOf(last.pre)) EXCEPT !.pre = "open", !.arg = last.arg]
  /\ UNCHANGED <<msgs, handles, writes>>

\* one thread: no other call runs while an owner drains
NextDrain ==
  \/ ~Draining /\ FileNext
  \/ \E m \in MsgIds : ~Draining /\ IsOpen(St, m) /\ MsgClose(m)
  \/ \E key \in IdxKeys, value \in SelVals : ~Draining /\ IndexSelect(key, value)
  \/ \E owner \in {"GribFile", "GribIndex"} : DrainBegin(owner)
  \/ DrainStep
  \/ DrainEnd

\* the loop runs on: a step of it that can be taken is taken
SpecDrain ==
  Init /\ [][NextDrain]_vars /\ WF_vars(DrainStep) /\ WF_vars(DrainEnd)

\* ================================================================= claims
MsgsFrom(origin) == {m \in MsgIds : msgs[m].origin = origin}
OpenNow(m) == IsOpen(St, m)
CloseOps == {"close", "file_close", "index_close"}
AccessorOps == {"keys", "contains", "key_count", "get", "set", "missing",
                "set_missing", "clone", "dump", "write"}
SelectionError == "IndexNotSelectedError"
UseAfterCloseError == "UseAfterCloseError"
MissingKeyError == "KeyError"

\* C1: once an owner (container or index) is closed, its open-registry is
\* empty and every message opened from it is closed.
C1_LifecycleDraining ==
  /\ grib.closed =>
       grib.open_messages = << >> /\ \A m \in MsgsFrom("file") : ~OpenNow(m)
  /\ idx.released > 0 =>
       idx.open_messages = << >> /\ \A m \in MsgsFrom("index") : ~OpenNow(m)

\* C2: every message instantiated from the index has the index as its owner
\* and, as long as nothing was closed, the index's open-registry holds exactly
\* the messages instantiated from it.
C2_IndexRegistersMessages ==
  /\ \A m \in MsgsFrom("index") : msgs[m].grib_file = "GribIndex"
  /\ (idx.released = 0 /\ \A m \in MsgsFrom("index") : OpenNow(m)) =>
       Range(idx.open_messages) = MsgsFrom("index")

\* C3: closing one open, owned message removes exactly that message from its
\* owner's registry; the other entries keep their order, stay open and keep
\* their handles.
Without(reg, m) == SelectSeq(reg, LAMBDA x : x # m)
OwnedClose(m) ==
  /\ last'.op = "close" /\ last'.msg = m /\ last'.pre = "open"
  /\ msgs[m].grib_file # None
C4_IdempotentClose ==
  /\ \A g \in DOMAIN handles : handles[g].released <= 1
  /\ idx.released <= 1
  /\ (last.op \in CloseOps /\ last.pre = "closed") => last.outcome = "ok"

\* C5: an accessor called on a closed message fails with UseAfterCloseError
\* (so the released handle never reaches the codec).
C5_UseAfterCloseFailsFast ==
  (last.op \in AccessorOps /\ last.stale) => last.outcome = UseAfterCloseError

\* C6: after an owner's close, every record handle acquired for a message of
\* that owner has been released.
C6_NoHandleLeak ==
  \A m \in MsgIds :
    (\/ msgs[m].origin = "file" /\ grib.closed
     \/ msgs[m].origin = "index" /\ idx.released > 0)
    => handles[msgs[m].gid].released >= 1

\* C7: select called with a mapping fails with SelectionError and makes no
\* message when the mapping omits an indexed key or holds an out-of-domain
\* value, and succeeds when it gives an in-domain value for every indexed key.
C7_SelectionCompleteness ==
  last.op = "select_mapping" =>
    /\ last.pre \in {"incomplete", "out_of_domain"} =>
         last.outcome = SelectionError /\ last.made = 0
    /\ last.pre = "complete" => last.outcome = "ok"

\* C8: instantiating a message from an index without a full selection fails
\* with SelectionError and makes no message.
C8_NoSelectionIsSelectionError ==
  (last.op = "from_index" /\ last.pre = "unselected") =>
    last.outcome = SelectionError /\ last.made = 0

\* C9: the index's selection changes only in a select call or when the index
\* is closed; instantiating a message and closing a message leave it as it is,
\* and the selection a select call leaves behind, message made or not, is the
\* old one with the selected key set to the selected value.
C9_SelectionPersists ==
  [][/\ last'.op \notin {"select", "index_close"} => idx'.sel = idx.sel
     /\ (last'.op = "select" /\ ~last'.stale) =>
          idx'.sel = [idx.sel EXCEPT ![last'.key] = {last'.arg}]]_vars

\* C9 witness: after a select that made a message, a second message was
\* instantiated from the same, full selection.
C9_Witness ==
  /\ last.op = "from_index" /\ last.outcome = "ok" /\ last.made # 0
  /\ Cardinality(MsgsFrom("index")) >= 2
  /\ Complete(idx.sel) /\ InDomain(idx.sel)

\* what missing(key) and get(key) answer on the message of the last call
NowMissing == GribMessage_missing(Handle(last.msg), last.key)
NowGet == GribMessage_get(Handle(last.msg), last.key, FALSE)

AfterSetMissing ==
  (last.op = "set_missing" /\ last.outcome = "ok") =>
    /\ NowMissing.outcome = "ok" /\ NowMissing.flag
    /\ NowGet.outcome = MissingKeyError

\* C10 as stated: after set_missing(key), missing(key) is true and get(key)
\* fails with MissingKeyError; after a following set(key, v), missing(key) is
\* false and get(key) returns v.
C10_MissingRoundTrip ==
  /\ AfterSetMissing
  /\ (last.op = "set" /\ last.outcome = "ok" /\ last.pre = "after_set_missing") =>
       /\ NowMissing.outcome = "ok" /\ ~NowMissing.flag
       /\ NowGet.outcome = "ok" /\ NowGet.ret = last.val

\* the shape get(key) reads a stored value v back in
ReadBack(key, v) ==
  IF key = "values" THEN Array(v.elems)
  ELSE IF v.kind = "array" /\ Len(v.elems) = 1 THEN Scalar(v.elems[1])
  ELSE v

\* C10 amended: after set_missing(key), missing(key) is true and get(key)
\* fails with MissingKeyError; after a set(key, v), whatever the key held
\* before, missing(key) is false and get(key) returns the elements of v: v itself, except that under
\* "values" a scalar or text comes back as a one-element array and under any
\* other key a one-element sequence comes back as a scalar.
C10_MissingRoundTripByShape ==
  /\ AfterSetMissing
  /\ (last.op = "set" /\ last.outcome = "ok") =>
       /\ NowMissing.outcome = "ok" /\ ~NowMissing.flag
       /\ NowGet.outcome = "ok" /\ NowGet.ret = ReadBack(last.key, last.val)
       /\ NowGet.ret.elems = last.val.elems

\* C10 witness: a key was set missing and then set to a one-element sequence.
C10_Witness ==
  /\ last.op = "set" /\ last.outcome = "ok" /\ last.pre = "after_set_missing"
  /\ last.key = "k" /\ last.val = Array(<<7>>)
  /\ NowGet.ret = Scalar(7)

\* the last call was get(key) on a key the record holds and that is not missing
GetOnPresent ==
  /\ last.op = "get"
  /\ ~CodecRefuses(Handle(last.msg), last.key)
  /\ ~grib_is_missing(Handle(last.msg), last.key)

\* C11: get(key) on a non-missing key reads "values" through the array path
\* and nothing else; any other key is read through the scalar path first, the
\* array path is tried exactly when the scalar read failed as too small, and
\* its result is then returned; another failure of the scalar read is raised
\* as it is and no array read is made.
C11_GetShapeInference ==
  GetOnPresent =>
    /\ last.key = "values" =>
         /\ last.path = <<"grib_is_missing", "grib_get_values">>
         /\ last.outcome = "ok"
         /\ last.ret = Array(Handle(last.msg).data["values"].elems)
    /\ last.key # "values" =>
         /\ Len(last.path) >= 2 /\ last.path[2] = "grib_get"
         /\ "grib_get_values" \notin Range(last.path)
         /\ "grib_get_array" \in Range(last.path) <=> last.pre = TooSmall
         /\ last.pre = TooSmall =>
              /\ last.path = <<"grib_is_missing", "grib_get", "grib_get_array">>
              /\ last.outcome = "ok"
              /\ last.ret = grib_get_array(Handle(last.msg), last.key)
         /\ last.pre = "other" =>
              last.outcome = "GribInternalError" /\ last.ret = NoVal
         /\ last.pre = "none" =>
              last.outcome = "ok" /\ last.ret = grib_get(Handle(last.msg), last.key)

\* C11 witness: a key other than "values" holding two elements was read, the
\* scalar read was too small and the array read answered.
C11_Witness ==
  /\ GetOnPresent /\ last.key = "k" /\ last.pre = TooSmall
  /\ last.path = <<"grib_is_missing", "grib_get", "grib_get_array">>
  /\ last.outcome = "ok" /\ last.ret = Array(<<7, 7>>)

\* C12: set(key, value) calls the codec's array-set operation when the value
\* is a non-textual sequence and its scalar-set operation otherwise, for every
\* key, "values" included, and stores the value's elements.
C12_SetPathByShape ==
  last.op = "set" =>
    /\ last.path = IF last.val.kind = "array"
                   THEN <<"grib_set_array">> ELSE <<"grib_set">>
    /\ last.outcome = "ok" =>
         Handle(last.msg).data[last.key] =
           Datum(IF last.val.kind = "text" THEN "str" ELSE "int",
                 last.val.elems, FALSE)

\* C12 witness: a scalar was set under "values" and went to the scalar-set
\* operation.
C12_Witness ==
  /\ last.op = "set" /\ last.outcome = "ok"
  /\ last.key = "values" /\ last.val = Scalar(7)
  /\ last.path = <<"grib_set">>

\* the error kinds of the codec and of file input/output
ResourceErrors == {"GribInternalError", "IOError"}

\* C13: write on an open message serializes to the destination given; with no
\* destination it serializes to the file of the owning container; with no
\* destination and no container owner it fails with a resource error and
\* writes nothing.
C13_WriteDestination ==
  (last.op = "write" /\ ~last.stale) =>
    /\ last.pre # None =>
         last.outcome = "ok" /\ last.ret.kind = last.pre
    /\ (last.pre = None /\ msgs[last.msg].grib_file = "GribFile") =>
         last.outcome = "ok" /\ last.ret.kind = "file_handle"
    /\ (last.pre = None /\ msgs[last.msg].grib_file = None) =>
         last.outcome \in ResourceErrors /\ last.ret = NoVal

\* the messages clone() made, before and after a step
Clones == MsgsFrom("clone")
ClonesAfter == {m \in 1..Len(msgs') : msgs'[m].origin = "clone"}
ClosesMsg(c) == last'.op = "close" /\ last'.msg = c

\* C14: a message made by clone() has no owner, a record handle no other
\* message holds, and is in no registry; no call but its own close changes its
\* handle, so closing the original or the original's owner leaves it open;
\* and its own close changes no other message's handle and no registry.
C14_CloneIndependent ==
  [][/\ \A c \in ClonesAfter :
          /\ msgs'[c].grib_file = None
          /\ \A o \in (1..Len(msgs')) \ {c} : msgs'[o].gid # msgs'[c].gid
          /\ c \notin Range(grib.open_messages') \cup Range(idx.open_messages')
     /\ \A c \in Clones :
          /\ ~ClosesMsg(c) => handles'[msgs[c].gid] = handles[msgs[c].gid]
          /\ ClosesMsg(c) =>
               /\ grib.open_messages' = grib.open_messages
               /\ idx.open_messages' = idx.open_messages
               /\ msgs' = msgs /\ grib' = grib /\ idx' = idx
               /\ \A o \in MsgIds \ {c} :
                    handles'[msgs[o].gid] = handles[msgs[o].gid]]_vars

\* C14 witness: the container of the original was closed, the original with
\* it, and the clone is still open.
C14_Witness ==
  /\ last.op = "file_close" /\ last.pre = "open" /\ last.outcome = "ok"
  /\ Len(msgs) = 2 /\ msgs[1].origin = "file" /\ msgs[2].origin = "clone"
  /\ ~OpenNow(1) /\ OpenNow(2)

\* the key sequence a message enumerates
KeysOf(m) == GribMessage_get_keys(Handle(m)).names

\* C15: cloning an open message, through clone() or through the constructor
\* given the source message, makes a message that enumerates the key sequence
\* of the source, in the same order.
C15_CloneKeepsKeys ==
  (last.op \in {"clone", "clone_ctor"} /\ ~last.stale) =>
    /\ last.outcome = "ok" /\ last.made # 0
    /\ GribMessage_get_keys(Handle(last.made)).outcome = "ok"
    /\ KeysOf(last.made) = KeysOf(last.msg)

\* C16: on an open container of NumRecords records, a next() before the end
\* makes one new message with a new handle, owned by the container, advances
\* the cursor by one record and appends the message to the registry; a next()
\* at the end answers with the end-of-sequence signal and makes and changes
\* nothing of the messages, the handles, the registry and the cursor; the
\* cursor never moves back; len() is NumRecords as long as the container is
\* open; and after the container's close no message of it is open.
C16_ContainerIteration ==
  [][/\ (last'.op = "next" /\ ~grib.closed) =>
          IF grib.pos < NumRecords
            THEN /\ last'.outcome = "ok" /\ last'.made = Len(msgs) + 1
                 /\ Len(msgs') = Len(msgs) + 1
                 /\ msgs'[last'.made].grib_file = "GribFile"
                 /\ msgs'[last'.made].gid \notin {msgs[o].gid : o \in MsgIds}
                 /\ Live(handles'[msgs'[last'.made].gid])
                 /\ grib.pos' = grib.pos + 1
                 /\ grib.open_messages' = Append(grib.open_messages, last'.made)
            ELSE /\ last'.outcome = "StopIteration" /\ last'.made = 0
                 /\ msgs' = msgs /\ handles' = handles
                 /\ grib.open_messages' = grib.open_messages
                 /\ grib.pos' = grib.pos
     /\ grib.pos <= grib.pos' /\ grib.pos' <= NumRecords
     /\ ~grib.closed' => GribFile_len(St)' = NumRecords
     /\ last'.op = "file_close" =>
          /\ grib.open_messages' = << >>
          /\ \A m \in MsgIds : msgs[m].origin = "file" => ~IsOpen(St, m)']_vars

\* C16 witness: all records were read, all their messages are still
\* registered, and one more next() answered with the end-of-sequence signal.
C16_Witness ==
  /\ last.op = "next" /\ last.outcome = "StopIteration"
  /\ grib.pos = NumRecords /\ Len(grib.open_messages) = NumRecords
  /\ \A m \in Range(grib.open_messages) : OpenNow(m)

\* C17: the size of a message is the byte length the codec reported when the
\* message was constructed, and no later call, set and set_missing included,
\* changes it.
C17_SizeSnapshot ==
  [][/\ \A m \in MsgIds : GribMessage_size(St', m) = GribMessage_size(St, m)
     /\ last'.made # 0 =>
          GribMessage_size(St', last'.made) =
            grib_get_message_size(handles'[msgs'[last'.made].gid])]_vars

\* C17 witness: a set changed the byte length of the record and the size of
\* the message is still the one read at construction.
C17_Witness ==
  /\ last.op = "set" /\ last.outcome = "ok"
  /\ GribMessage_size(St, last.msg) # grib_get_message_size(Handle(last.msg))
  /\ GribMessage_size(St, last.msg) = grib_get_message_size(NewHandle(KeyOrder, RecordData))

\* the operations C18 names: the four constructions (the container's goes
\* through next(), which reports its failure as the end of the sequence),
\* select, get, set and write
FallibleOps == {"next", "from_index", "clone", "clone_ctor", "sample",
                "select", "get", "set", "write"}
Unreleased(hs) == {g \in DOMAIN hs : Live(hs[g])}

\* what C18 says a failed call leaves as it was, but for the counter
FailureKeeps ==
  /\ grib.open_messages' = grib.open_messages
  /\ idx.open_messages' = idx.open_messages
  /\ msgs' = msgs
  /\ DOMAIN handles' = DOMAIN handles
  /\ Unreleased(handles') = Unreleased(handles)
  /\ grib.closed' = grib.closed
  /\ idx.released' = idx.released

\* C18: a call of one of these operations that fails leaves the registries,
\* the container's messages-read count, the set of unreleased handles and the
\* open or closed state of every object as they were, and makes no message.
C18_FailureAtomicity ==
  [][(last'.op \in FallibleOps /\ last'.outcome # "ok") =>
       /\ FailureKeeps
       /\ grib.message' = grib.message]_vars

Owners == {"GribFile", "GribIndex"}
CountIn(reg, m) == Cardinality({i \in DOMAIN reg : reg[i] = m})

\* C19: every message in an owner's registry is open and has that owner as
\* its back-reference; every open message with a back-reference is in that
\* owner's registry exactly once; no message is in both registries; and a
\* message without a back-reference is in no registry.
C19_OwnershipInvariant ==
  /\ \A o \in Owners : \A m \in Range(Registry(St, o)) :
       m \in MsgIds /\ OpenNow(m) /\ msgs[m].grib_file = o
  /\ \A m \in MsgIds :
       /\ (OpenNow(m) /\ msgs[m].grib_file # None) =>
            CountIn(Registry(St, msgs[m].grib_file), m) = 1
       /\ msgs[m].grib_file = None =>
            \A o \in Owners : m \notin Range(Registry(St, o))
  /\ Range(grib.open_messages) \cap Range(idx.open_messages) = {}

\* C19 witness: of two messages of the container the first was closed and
\* left the registry, and the second is open and registered.
C19_Witness ==
  /\ Len(msgs) = 2 /\ msgs[1].grib_file = "GribFile" /\ msgs[2].grib_file = "GribFile"
  /\ ~OpenNow(1) /\ OpenNow(2)
  /\ grib.open_messages = <<2>>

\* no registered message of a released owner holds an unreleased handle
NoneLeftOpen ==
  /\ grib.closed => \A m \in Range(grib.open_messages) : ~OpenNow(m)
  /\ idx.released > 0 => \A m \in Range(idx.open_messages) : ~OpenNow(m)

\* C20: in the step that releases an owner's handle, the record handle of
\* every message that was in the owner's registry is released, and in no
\* state is an owner's handle released while a message in its registry holds
\* an unreleased record handle.
C20_CloseOrdering ==
  [][/\ (~grib.closed /\ grib.closed') =>
          \A m \in Range(grib.open_messages) : ~Live(handles'[msgs[m].gid])
     /\ idx.released' > idx.released =>
          \A m \in Range(idx.open_messages) : ~Live(handles'[msgs[m].gid])
     /\ NoneLeftOpen /\ NoneLeftOpen']_vars

\* C20 witness: the container was closed while two messages were in its
\* registry; both handles are released, each once.
C20_Witness ==
  /\ last.op = "file_close" /\ last.pre = "open" /\ last.outcome = "ok"
  /\ last.arg = 2 /\ grib.closed
  /\ \A m \in MsgsFrom("file") : handles[msgs[m].gid].released = 1
  /\ Cardinality(MsgsFrom("file")) = 2

\* a step of the drain loop that closed the first entry of the registry
DrainClosedOne == Draining /\ handles' # handles

\* C21: an owner's drain loop ends: every close the loop makes removes the
\* closed message, the first entry, from the registry the loop runs on, so
\* that the registry is one entry shorter and the loop goes on without an
\* error; and a close() that entered the loop leaves it.
C21_DrainTerminates ==
  /\ [][DrainClosedOne =>
          /\ Registry(St, last.pre)' = Tail(Registry(St, last.pre))
          /\ Len(Registry(St, last.pre)') = Len(Registry(St, last.pre)) - 1
          /\ last'.op = "draining" /\ last'.pre = last.pre]_vars
  /\ Draining ~> ~Draining

\* C21 witness: a loop entered on a registry of two messages has closed the
\* first of them and goes on with the second.
C21_Witness ==
  /\ Draining /\ last.arg = 2 /\ last.msg = 1
  /\ Registry(St, last.pre) = <<2>>
  /\ ~OpenNow(1) /\ OpenNow(2)

\* the messages opened from the container so far, after a step
FileMsgsAfter == {m \in 1..Len(msgs') : msgs'[m].origin = "file"}

\* what a single call does to the container's messages-read count
CountSteps ==
  /\ (last'.op = "next" /\ last'.outcome = "ok") => grib.message' = grib.message + 1
  /\ last'.op \in CloseOps => grib.message' = grib.message
  /\ last'.op \in {"clone", "clone_ctor", "sample", "from_index", "select"} =>
       grib.message' = grib.message

\* C22: the container's messages-read count is the number of messages opened
\* from the container so far and is at most len(); it grows by one with each
\* message opened from the container, and closing a message or an owner and
\* making a message from a clone, a sample or the index leave it as it is.
C22_MessagesReadCount ==
  [][/\ CountSteps
     /\ grib.message' = Cardinality(FileMsgsAfter)
     /\ grib.message' <= GribFile_len(St')]_vars

====
